---- MODULE Spec2Model ----
(***************************************************************************)
(* Model of probtorch/objectives/montecarlo.py: the Monte Carlo estimators *)
(* elbo, log_like, kl and ml over an encoder trace q and a decoder trace p.*)
(*                                                                         *)
(* Numbers are exact rationals <<n, d>> (d > 0, lowest terms).  Every      *)
(* log-density is expressed in the unit log(3), so that exp of an integer  *)
(* log-density k is the rational 3^k and softmax is computed exactly.      *)
(*                                                                         *)
(* A value of the program is one of                                        *)
(*   [kind |-> "None"]           Python None                               *)
(*   [kind |-> "N", v |-> r]     a bare Python number (numbers.Number)     *)
(*   [kind |-> "T", m |-> rows]  a tensor; rows is a matrix whose rows are *)
(*                               the sample axis (axis 0) and whose        *)
(*                               columns are the batch axis; a reduced     *)
(*                               axis has size 1                           *)
(*   [kind |-> "Err"]            the call raised (AttributeError)          *)
(***************************************************************************)
EXTENDS Integers, Sequences, FiniteSets

VARIABLES q, p, sample_dim, batch_dim, pc, fn, arg, coef, ret, names, weights, lwcalls

vars == <<q, p, sample_dim, batch_dim, pc, fn, arg, coef, ret, names, weights, lwcalls>>

\* ------------------------------------------------------------------ bounds
\* size of the sample axis of every node's log-density
NumSamples == 2
\* size of the batch axis of every node's log-density
NumBatch == 2

\* ------------------------------------------------------------- rationals
Abs(n) == IF n < 0 THEN -n ELSE n

RECURSIVE Gcd(_, _)
Gcd(a, b) == IF b = 0 THEN a ELSE Gcd(b, a % b)

Norm(n, d) == LET g == Gcd(Abs(n), d) IN <<n \div g, d \div g>>

Int2R(n) == <<n, 1>>
RAdd(a, b) == Norm(a[1] * b[2] + b[1] * a[2], a[2] * b[2])
RNeg(a) == <<-a[1], a[2]>>
RSub(a, b) == RAdd(a, RNeg(b))
RMul(a, b) == Norm(a[1] * b[1], a[2] * b[2])
RDivInt(a, n) == Norm(a[1], a[2] * n)
RInv(a) == <<a[2], a[1]>>

RECURSIVE Pow3(_)
Pow3(k) == IF k = 0 THEN 1 ELSE 3 * Pow3(k - 1)

\* exp of a log-density of k units of log(3)
RExp(a) == IF a[1] >= 0 THEN <<Pow3(a[1]), 1>> ELSE <<1, Pow3(-a[1])>>

RECURSIVE RSumSeq(_)
RSumSeq(s) == IF s = <<>> THEN Int2R(0) ELSE RAdd(Head(s), RSumSeq(Tail(s)))

\* ---------------------------------------------------------------- values
NoneV == [kind |-> "None"]
Err == [kind |-> "Err"]
N(r) == [kind |-> "N", v |-> r]
T(m) == [kind |-> "T", m |-> m]

None == <<>>

Rows(m) == Len(m)
Cols(m) == Len(m[1])
Max(a, b) == IF a >= b THEN a ELSE b

\* element (i, j) of m under broadcasting of an axis of size 1
At(m, i, j) == m[IF Rows(m) = 1 THEN 1 ELSE i][IF Cols(m) = 1 THEN 1 ELSE j]

\* isinstance(v, Number)
IsNumber(v) == v.kind = "N"

\* elementwise a (op) b of two values, with broadcasting; an operand that is
\* the outcome of a raised call makes the whole expression raise
Sub(a, b) ==
    IF a.kind = "Err" \/ b.kind = "Err" THEN Err
    ELSE IF a.kind = "N" /\ b.kind = "N" THEN N(RSub(a.v, b.v))
    ELSE LET am == IF a.kind = "N" THEN <<<<a.v>>>> ELSE a.m
             bm == IF b.kind = "N" THEN <<<<b.v>>>> ELSE b.m
         IN T([i \in 1..Max(Rows(am), Rows(bm)) |->
                 [j \in 1..Max(Cols(am), Cols(bm)) |-> RSub(At(am, i, j), At(bm, i, j))]])

Add(a, b) ==
    IF a.kind = "Err" \/ b.kind = "Err" THEN Err
    ELSE IF a.kind = "N" /\ b.kind = "N" THEN N(RAdd(a.v, b.v))
    ELSE LET am == IF a.kind = "N" THEN <<<<a.v>>>> ELSE a.m
             bm == IF b.kind = "N" THEN <<<<b.v>>>> ELSE b.m
         IN T([i \in 1..Max(Rows(am), Rows(bm)) |->
                 [j \in 1..Max(Cols(am), Cols(bm)) |-> RAdd(At(am, i, j), At(bm, i, j))]])

Mul(a, b) ==
    IF a.kind = "Err" \/ b.kind = "Err" THEN Err
    ELSE IF a.kind = "N" /\ b.kind = "N" THEN N(RMul(a.v, b.v))
    ELSE LET am == IF a.kind = "N" THEN <<<<a.v>>>> ELSE a.m
             bm == IF b.kind = "N" THEN <<<<b.v>>>> ELSE b.m
         IN T([i \in 1..Max(Rows(am), Rows(bm)) |->
                 [j \in 1..Max(Cols(am), Cols(bm)) |-> RMul(At(am, i, j), At(bm, i, j))]])

\* the column j of m as a sequence over the rows
Column(m, j) == [i \in 1..Rows(m) |-> m[i][j]]

\* all entries of m, row after row
RECURSIVE Flatten(_)
Flatten(m) == IF m = <<>> THEN <<>> ELSE Head(m) \o Flatten(Tail(m))

\* v.mean(): the mean of all entries of a tensor, a 0-dim tensor; a bare
\* Python number has no attribute mean, so the call raises
Mean(v) ==
    IF v.kind = "T"
    THEN T(<<<<RDivInt(RSumSeq(Flatten(v.m)), Rows(v.m) * Cols(v.m))>>>>)
    ELSE Err

\* v.sum(0): the sum over axis 0
Sum0(v) ==
    IF v.kind = "T"
    THEN T(<<[j \in 1..Cols(v.m) |-> RSumSeq(Column(v.m, j))]>>)
    ELSE Err

\* softmax(v, dim): exp(v) divided by the sum of exp(v) along axis dim
softmax(v, dim) ==
    IF v.kind = "T"
    THEN T([i \in 1..Rows(v.m) |-> [j \in 1..Cols(v.m) |->
              RMul(RExp(v.m[i][j]),
                   RInv(IF dim = 0
                        THEN RSumSeq([k \in 1..Rows(v.m) |-> RExp(v.m[k][j])])
                        ELSE RSumSeq([k \in 1..Cols(v.m) |-> RExp(v.m[i][k])])))]])
    ELSE Err

\* ---------------------------------------------------------------- traces
\* A trace is a function from the names it holds to nodes
\* [conditioned |-> BOOLEAN, log_prob |-> matrix NumSamples x NumBatch].
Names == {"x", "y", "z"}

\* trace.conditioned()
Conditioned(trace) == {n \in DOMAIN trace : trace[n].conditioned}

\* trace.sampled()
Sampled(trace) == {n \in DOMAIN trace : ~trace[n].conditioned}

\* n in trace
Contains(trace, n) == n \in DOMAIN trace

\* the sum of m over every axis but the kept ones
BatchSum(m, sd, bd) ==
    LET rs == IF sd = None THEN {1} ELSE 1..Rows(m)
        cs == IF bd = None THEN {1} ELSE 1..Cols(m)
        cell(i, j) ==
            RSumSeq(Flatten([a \in 1..(IF sd = None THEN Rows(m) ELSE 1) |->
                      [b \in 1..(IF bd = None THEN Cols(m) ELSE 1) |->
                          m[IF sd = None THEN a ELSE i][IF bd = None THEN b ELSE j]]]))
    IN T([i \in rs |-> [j \in cs |-> cell(i, j)]])

\* sum_log_prob(trace, sample_dim, batch_dim, nodes): starts from the number
\* 0.0 and adds the reduced log-density of every listed name the trace holds
RECURSIVE sum_log_prob(_, _, _, _)
sum_log_prob(trace, sd, bd, nodes) ==
    IF nodes = {} THEN N(Int2R(0))
    ELSE LET n == CHOOSE e \in nodes : TRUE
             rest == sum_log_prob(trace, sd, bd, nodes \ {n})
         IN IF Contains(trace, n)
            THEN Add(rest, BatchSum(trace[n].log_prob, sd, bd))
            ELSE rest

\* ------------------------------------------------------------ estimators
\* Each estimator returns a record: ret is the value returned (Err when the
\* call raised), weights the local of that name (None when never bound) and
\* nlw the number of times the call computed the log-weights from q.

\* variant: "not in q.conditioned()" in place of "not in q"
X_unconditioned_in_q(qt, pt) == {n \in Conditioned(pt) : n \notin Conditioned(qt)}

\* x = [n for n in p.conditioned() if n not in q]
X(qt, pt) == {n \in Conditioned(pt) : ~Contains(qt, n)}

\* z = list(q.sampled())
Z(qt) == Sampled(qt)

\* variant: omitted log_weights are never computed, the unweighted mean is
\* returned instead
log_like_no_default(qt, pt, sd, bd, log_weights) ==
    LET log_prob == sum_log_prob(pt, sd, bd, X(qt, pt))
    IN IF sd = None \/ log_weights = NoneV \/ IsNumber(log_weights)
       THEN [ret |-> Mean(log_prob), weights |-> NoneV, nlw |-> 0]
       ELSE LET w == softmax(log_weights, 0)
            IN [ret |-> Mean(Sum0(Mul(w, log_prob))), weights |-> w, nlw |-> 0]

\* variant: (weights * log_prob).mean(), the sum over the sample axis left out
log_like_no_sum(qt, pt, sd, bd, log_weights) ==
    LET log_prob == sum_log_prob(pt, sd, bd, X(qt, pt))
    IN IF sd = None
       THEN [ret |-> Mean(log_prob), weights |-> NoneV, nlw |-> 0]
       ELSE LET computed == log_weights = NoneV
                lw == IF computed
                      THEN sum_log_prob(qt, sd, bd, Conditioned(qt))
                      ELSE log_weights
                nlw == IF computed THEN 1 ELSE 0
            IN IF IsNumber(lw)
               THEN [ret |-> Mean(log_prob), weights |-> NoneV, nlw |-> nlw]
               ELSE LET w == softmax(lw, 0)
                    IN [ret |-> Mean(Mul(w, log_prob)), weights |-> w, nlw |-> nlw]

\* variant: softmax(log_weights, 1), normalized along the batch axis
log_like_softmax_batch(qt, pt, sd, bd, log_weights) ==
    LET log_prob == sum_log_prob(pt, sd, bd, X(qt, pt))
    IN IF sd = None
       THEN [ret |-> Mean(log_prob), weights |-> NoneV, nlw |-> 0]
       ELSE LET computed == log_weights = NoneV
                lw == IF computed
                      THEN sum_log_prob(qt, sd, bd, Conditioned(qt))
                      ELSE log_weights
                nlw == IF computed THEN 1 ELSE 0
            IN IF IsNumber(lw)
               THEN [ret |-> Mean(log_prob), weights |-> NoneV, nlw |-> nlw]
               ELSE LET w == softmax(lw, 1)
                    IN [ret |-> Mean(Sum0(Mul(w, log_prob))), weights |-> w, nlw |-> nlw]

\* lines 71-83
log_like(qt, pt, sd, bd, log_weights) ==
    LET x == X(qt, pt)
        log_prob == sum_log_prob(pt, sd, bd, x)
    IN IF sd = None
       THEN [ret |-> Mean(log_prob), weights |-> NoneV, nlw |-> 0]
       ELSE LET computed == log_weights = NoneV
                lw == IF computed
                      THEN sum_log_prob(qt, sd, bd, Conditioned(qt))
                      ELSE log_weights
                nlw == IF computed THEN 1 ELSE 0
            IN IF IsNumber(lw)
               THEN [ret |-> Mean(log_prob), weights |-> NoneV, nlw |-> nlw]
               ELSE LET w == softmax(lw, 0)
                    IN [ret |-> Mean(Sum0(Mul(w, log_prob))), weights |-> w, nlw |-> nlw]

\* variant: z = [n for n in q.sampled() if n in p]
kl_z_in_p(qt, pt, sd, bd, log_weights) ==
    LET z == {n \in Z(qt) : Contains(pt, n)}
        log_p == sum_log_prob(pt, sd, bd, z)
        log_q == sum_log_prob(qt, sd, bd, z)
        log_qp == Sub(log_q, log_p)
    IN IF sd = None
       THEN [ret |-> Mean(log_qp), weights |-> NoneV, nlw |-> 0]
       ELSE LET computed == log_weights = NoneV
                lw == IF computed
                      THEN sum_log_prob(qt, sd, bd, Conditioned(qt))
                      ELSE log_weights
                nlw == IF computed THEN 1 ELSE 0
            IN IF IsNumber(lw)
               THEN [ret |-> Mean(log_qp), weights |-> NoneV, nlw |-> nlw]
               ELSE LET w == softmax(lw, 0)
                    IN [ret |-> Mean(Sum0(Mul(w, log_qp))), weights |-> w, nlw |-> nlw]

\* lines 115-129
kl(qt, pt, sd, bd, log_weights) ==
    LET z == Z(qt)
        log_p == sum_log_prob(pt, sd, bd, z)
        log_q == sum_log_prob(qt, sd, bd, z)
        log_qp == Sub(log_q, log_p)
    IN IF sd = None
       THEN [ret |-> Mean(log_qp), weights |-> NoneV, nlw |-> 0]
       ELSE LET computed == log_weights = NoneV
                lw == IF computed
                      THEN sum_log_prob(qt, sd, bd, Conditioned(qt))
                      ELSE log_weights
                nlw == IF computed THEN 1 ELSE 0
            IN IF IsNumber(lw)
               THEN [ret |-> Mean(log_qp), weights |-> NoneV, nlw |-> nlw]
               ELSE LET w == softmax(lw, 0)
                    IN [ret |-> Mean(Sum0(Mul(w, log_qp))), weights |-> w, nlw |-> nlw]

\* variant: weighted like the other two estimators
ml_weighted(qt, sd, bd) ==
    LET log_q == sum_log_prob(qt, sd, bd, Conditioned(qt))
    IN IF IsNumber(log_q) THEN log_q
       ELSE IF sd = None THEN Mean(log_q)
       ELSE Mean(Sum0(Mul(softmax(log_q, 0), log_q)))

\* lines 156-160
ml(qt, sd, bd) ==
    LET log_q == sum_log_prob(qt, sd, bd, Conditioned(qt))
    IN IF IsNumber(log_q) THEN log_q ELSE Mean(log_q)

\* variant: the log-weights elbo computed are not handed on, each estimator
\* computes its own
elbo_recompute(qt, pt, sd, bd, alpha, beta) ==
    LET ll == log_like(qt, pt, sd, bd, NoneV)
        k == kl(qt, pt, sd, bd, NoneV)
    IN [ret |-> Add(Sub(ll.ret, Mul(N(beta), k.ret)), Mul(N(alpha), ml(qt, sd, bd))),
        lwcalls |-> [elbo |-> 1, log_like |-> ll.nlw, kl |-> k.nlw, ml |-> 1]]

\* lines 36-40.
\* lwcalls: how often each function computed the reduction of q's conditioned
\* names during the evaluation
elbo(qt, pt, sd, bd, alpha, beta) ==
    LET log_weights == sum_log_prob(qt, sd, bd, Conditioned(qt))
        ll == log_like(qt, pt, sd, bd, log_weights)
        k == kl(qt, pt, sd, bd, log_weights)
    IN [ret |-> Add(Sub(ll.ret, Mul(N(beta), k.ret)), Mul(N(alpha), ml(qt, sd, bd))),
        lwcalls |-> [elbo |-> 1, log_like |-> ll.nlw, kl |-> k.nlw, ml |-> 1]]

\* ---------------------------------------------------------------- inputs
\* the log-density of a node: base everywhere, plus one unit on the entries
\* the pattern selects (skewed: odd sample index and odd batch index;
\* otherwise odd batch index, equal across samples)
NodeTensor(base, skewed) ==
    [s \in 1..NumSamples |-> [b \in 1..NumBatch |->
        Int2R(base + (((IF skewed THEN s ELSE 1) * b) % 2))]]

QBase == [x |-> 1, y |-> 0, z |-> 2]
PBase == [x |-> 3, y |-> 1, z |-> -1]

Status == {"absent", "sampled", "conditioned"}

MkTrace(st, base, skewed) ==
    [n \in {m \in Names : st[m] # "absent"} |->
        [conditioned |-> st[n] = "conditioned",
         log_prob |-> NodeTensor(base[n], skewed)]]

\* a tensor of log-weights a caller may hand in, of the shape the axes give:
\* 0, log 3, 2 log 3, ... along the sample axis, at every batch index
OtherWeights(sd, bd) ==
    T([s \in 1..(IF sd = None THEN 1 ELSE NumSamples) |->
        [b \in 1..(IF bd = None THEN 1 ELSE NumBatch) |->
            Int2R(s - 1)]])

\* the log_weights arguments tried: omitted, a bare number, the precomputed
\* reduction of q's conditioned names, another tensor
LogWeightArgs(qt, sd, bd) ==
    {NoneV, N(Int2R(1)), sum_log_prob(qt, sd, bd, Conditioned(qt)), OtherWeights(sd, bd)}

\* the (alpha, beta) pairs tried; the first is the default of line 6
Coefs == {<<<<1, 10>>, <<1, 1>>>>, <<<<1, 1>>, <<2, 1>>>>}

NoCalls == [elbo |-> 0, log_like |-> 0, kl |-> 0, ml |-> 0]

Init ==
    /\ \E stq \in [Names -> Status], sq \in BOOLEAN : q = MkTrace(stq, QBase, sq)
    /\ \E stp \in [Names -> Status], sp \in BOOLEAN : p = MkTrace(stp, PBase, sp)
    /\ sample_dim \in {None, <<0>>}
    /\ batch_dim \in {None, <<1>>}
    /\ pc = "idle"
    /\ fn = "none"
    /\ arg = NoneV
    /\ coef = <<Int2R(0), Int2R(0)>>
    /\ ret = NoneV
    /\ names = {}
    /\ weights = NoneV
    /\ lwcalls = NoCalls

CallLogLike ==
    /\ pc = "idle"
    /\ \E lw \in LogWeightArgs(q, sample_dim, batch_dim) :
         LET r == log_like(q, p, sample_dim, batch_dim, lw)
         IN /\ arg' = lw
            /\ ret' = r.ret
            /\ weights' = r.weights
            /\ lwcalls' = [NoCalls EXCEPT !.log_like = r.nlw]
    /\ names' = X(q, p)
    /\ fn' = "log_like"
    /\ pc' = "done"
    /\ UNCHANGED <<q, p, sample_dim, batch_dim, coef>>

CallKl ==
    /\ pc = "idle"
    /\ \E lw \in LogWeightArgs(q, sample_dim, batch_dim) :
         LET r == kl(q, p, sample_dim, batch_dim, lw)
         IN /\ arg' = lw
            /\ ret' = r.ret
            /\ weights' = r.weights
            /\ lwcalls' = [NoCalls EXCEPT !.kl = r.nlw]
    /\ names' = Z(q)
    /\ fn' = "kl"
    /\ pc' = "done"
    /\ UNCHANGED <<q, p, sample_dim, batch_dim, coef>>

CallMl ==
    /\ pc = "idle"
    /\ ret' = ml(q, sample_dim, batch_dim)
    /\ lwcalls' = [NoCalls EXCEPT !.ml = 1]
    /\ fn' = "ml"
    /\ pc' = "done"
    /\ UNCHANGED <<q, p, sample_dim, batch_dim, arg, coef, names, weights>>

CallElbo ==
    /\ pc = "idle"
    /\ \E c \in Coefs :
         LET r == elbo(q, p, sample_dim, batch_dim, c[1], c[2])
         IN /\ coef' = c
            /\ ret' = r.ret
            /\ lwcalls' = r.lwcalls
    /\ fn' = "elbo"
    /\ pc' = "done"
    /\ UNCHANGED <<q, p, sample_dim, batch_dim, arg, names, weights>>

Next == CallLogLike \/ CallKl \/ CallMl \/ CallElbo

Spec == Init /\ [][Next]_vars

\* ------------------------------------------------- reference arithmetic
\* The quantities the statements below speak of, written out over the
\* entries of the traces' log-densities.

Done == pc = "done"

\* v is a returned value (the call did not raise)
Returned(v) == v.kind \in {"N", "T"}

\* the number a returned scalar holds
Val(v) == IF v.kind = "T" THEN v.m[1][1] ELSE v.v

\* the indices that remain along the sample and the batch axis
SIdx(sd) == IF sd = None THEN {1} ELSE 1..NumSamples
BIdx(bd) == IF bd = None THEN {1} ELSE 1..NumBatch

\* the sum of f over the finite set S
RECURSIVE SumOver(_, _)
SumOver(S, f) ==
    IF S = {} THEN Int2R(0)
    ELSE LET e == CHOOSE t \in S : TRUE IN RAdd(f[e], SumOver(S \ {e}, f))

\* entry (i, j) of the log-density of trace summed over the names ns that the
\* trace holds and over every axis that is not kept
Reduced(trace, ns, sd, bd) ==
    [c \in SIdx(sd) \X BIdx(bd) |->
        SumOver({t \in (ns \cap DOMAIN trace) \X (1..NumSamples) \X (1..NumBatch) :
                    /\ (sd # None => t[2] = c[1])
                    /\ (bd # None => t[3] = c[2])},
                [t \in (ns \cap DOMAIN trace) \X (1..NumSamples) \X (1..NumBatch) |->
                    trace[t[1]].log_prob[t[2]][t[3]]])]

\* the same quantity as a value: a bare zero when no listed name is held
ReducedValue(trace, ns, sd, bd) ==
    IF ns \cap DOMAIN trace = {} THEN N(Int2R(0))
    ELSE T([i \in SIdx(sd) |-> [j \in BIdx(bd) |-> Reduced(trace, ns, sd, bd)[<<i, j>>]]])

\* the plain mean of f over all its entries
PlainMean(f) == RDivInt(SumOver(DOMAIN f, f), Cardinality(DOMAIN f))

\* exp(lw[i][j]) / sum over the samples k of exp(lw[k][j])
NormWeight(lw, i, j) ==
    RMul(RExp(lw[i][j]), RInv(SumOver(1..Len(lw), [k \in 1..Len(lw) |-> RExp(lw[k][j])])))

\* the mean over the batch of the sum over the samples of weight * f
WeightedMean(f, lw, bd) ==
    RDivInt(SumOver(DOMAIN f, [c \in DOMAIN f |-> RMul(NormWeight(lw, c[1], c[2]), f[c])]),
            Cardinality(BIdx(bd)))

\* the names the statements call x, y and z
XRef == {n \in DOMAIN p : p[n].conditioned /\ n \notin DOMAIN q}
YRef == {n \in DOMAIN q : q[n].conditioned}
ZRef == {n \in DOMAIN q : ~q[n].conditioned}

\* the reduction of q's conditioned-variable log-density
Precomputed == ReducedValue(q, YRef, sample_dim, batch_dim)

\* the log-weights the call works with: those handed in, else Precomputed
EffLw == IF arg = NoneV THEN Precomputed ELSE arg

\* the reduced quantity the called estimator averages
LogProbRef == Reduced(p, XRef, sample_dim, batch_dim)
LogQpRef ==
    [c \in SIdx(sample_dim) \X BIdx(batch_dim) |->
        RSub(Reduced(q, ZRef, sample_dim, batch_dim)[c],
             Reduced(p, ZRef, sample_dim, batch_dim)[c])]
Averaged == IF fn = "log_like" THEN LogProbRef ELSE LogQpRef

\* the called estimator on other log_weights
Again(lw) ==
    IF fn = "log_like" THEN log_like(q, p, sample_dim, batch_dim, lw).ret
    ELSE kl(q, p, sample_dim, batch_dim, lw).ret

\* the trace holding only the names ns of trace
Restrict(trace, ns) == [n \in ns \cap DOMAIN trace |-> trace[n]]

\* the log-weights are the same for every sample, at each batch index
Uniform(lw) == \A i \in 1..Len(lw), j \in 1..Len(lw[1]) : lw[i][j] = lw[1][j]

\* ---------------------------------------------------------------- claims

\* C1: elbo returns log_like(q,p,sd,bd,w) - beta * kl(q,p,sd,bd,w)
\* + alpha * ml(q,sd,bd), w being the reduction of q's conditioned-variable
\* log-density, which elbo computes once; log_like and kl do not compute the
\* log-weights during that evaluation.
C1_ElboDecomposition ==
    (Done /\ fn = "elbo") =>
        LET ll == log_like(q, p, sample_dim, batch_dim, Precomputed).ret
            k == kl(q, p, sample_dim, batch_dim, Precomputed).ret
            m == ml(q, sample_dim, batch_dim)
        IN /\ lwcalls.elbo = 1
           /\ lwcalls.log_like = 0
           /\ lwcalls.kl = 0
           /\ IF Returned(ll) /\ Returned(k) /\ Returned(m)
              THEN /\ Returned(ret)
                   /\ Val(ret) = RAdd(RSub(Val(ll), RMul(coef[2], Val(k))),
                                      RMul(coef[1], Val(m)))
              ELSE ret = Err

C1_Witness ==
    /\ Done /\ fn = "elbo" /\ sample_dim # None /\ batch_dim # None
    /\ XRef # {} /\ YRef # {} /\ ZRef # {}
    /\ coef = <<<<1, 1>>, <<2, 1>>>>
    /\ Returned(ret)
    /\ ~Uniform(Precomputed.m)
    /\ log_like(q, p, sample_dim, batch_dim, Precomputed).ret
         # log_like(q, p, sample_dim, batch_dim, N(Int2R(1))).ret

\* C2 (as stated): with sample_dim unset, log_like returns the plain mean of
\* p's log-density reduced over x and kl the plain mean of q's minus p's
\* log-density reduced over z, whatever log_weights is.
C2_UnsetSampleDimPlainMean ==
    (Done /\ fn \in {"log_like", "kl"} /\ sample_dim = None) =>
        /\ Returned(ret)
        /\ Val(ret) = PlainMean(Averaged)
        /\ \A lw \in {NoneV, N(Int2R(1)), Precomputed, OtherWeights(sample_dim, batch_dim)} :
              Again(lw) = ret

\* C3: log_like (kl) with log_weights set to the precomputed reduction of
\* q's conditioned-variable log-density returns what it returns with
\* log_weights omitted.
C3_SharedWeightConsistency ==
    (Done /\ fn \in {"log_like", "kl"}) =>
        /\ (arg = NoneV => ret = Again(Precomputed))
        /\ (arg = Precomputed => ret = Again(NoneV))

C3_Witness ==
    /\ Done /\ fn = "log_like" /\ arg = NoneV
    /\ sample_dim # None /\ batch_dim # None
    /\ Precomputed.kind = "T" /\ ~Uniform(Precomputed.m)
    /\ Returned(ret)
    /\ Val(ret) # PlainMean(LogProbRef)

C5_WeightsNormalized ==
    (Done /\ fn \in {"log_like", "kl"}) =>
        /\ (weights # NoneV) <=> (sample_dim # None /\ EffLw.kind = "T")
        /\ (weights # NoneV) =>
              /\ weights.kind = "T"
              /\ Len(weights.m) = Len(EffLw.m)
              /\ \A i \in 1..Len(weights.m), j \in 1..Len(weights.m[1]) :
                    weights.m[i][j][1] >= 0 /\ weights.m[i][j][2] > 0
              /\ \A j \in 1..Len(weights.m[1]) :
                    SumOver(1..Len(weights.m),
                            [i \in 1..Len(weights.m) |-> weights.m[i][j]]) = Int2R(1)

C5_Witness ==
    /\ Done /\ fn = "log_like" /\ batch_dim # None
    /\ weights # NoneV
    /\ Len(weights.m) = NumSamples /\ Len(weights.m[1]) = NumBatch
    /\ \E j \in 1..NumBatch : weights.m[1][j] # weights.m[2][j]

\* C6: ml returns the unweighted mean over all sample and batch entries of
\* the reduction of q's conditioned-variable log-density, and that reduction
\* itself when it is a bare number (zero for a trace with no conditioned
\* names); p and importance weights play no part.
C6_MlUnweightedMean ==
    (Done /\ fn = "ml") =>
        IF YRef = {}
        THEN ret = N(Int2R(0))
        ELSE /\ Returned(ret)
             /\ Val(ret) = PlainMean(Reduced(q, YRef, sample_dim, batch_dim))

C6_Witness ==
    /\ Done /\ fn = "ml" /\ sample_dim # None /\ batch_dim # None
    /\ YRef # {} /\ DOMAIN p # {}
    /\ ~Uniform(Precomputed.m)
    /\ Returned(ret) /\ Val(ret) # Int2R(0)

\* C7 (as stated): with sample_dim set and bare-number log-weights, log_like
\* and kl return the plain mean over sample and batch entries of log_prob
\* (log_q - log_p), normalize nothing and raise no error.
C7_NumberWeightsUnweighted ==
    (Done /\ fn \in {"log_like", "kl"} /\ sample_dim # None /\ EffLw.kind = "N") =>
        /\ Returned(ret)
        /\ Val(ret) = PlainMean(Averaged)
        /\ weights = NoneV

\* C8: the names log_like reduces over are exactly those conditioned in p
\* and absent from q under any status; no other node of p contributes, and
\* the set is disjoint from q's conditioned and from q's sampled names.
C8_XConditionedInPAbsentFromQ ==
    (Done /\ fn = "log_like") =>
        /\ names = XRef
        /\ names \cap YRef = {}
        /\ names \cap ZRef = {}
        /\ ret = log_like(q, Restrict(p, XRef), sample_dim, batch_dim, arg).ret
        /\ Returned(ret) =>
              Val(ret) = IF sample_dim # None /\ EffLw.kind = "T"
                         THEN WeightedMean(LogProbRef, EffLw.m, batch_dim)
                         ELSE PlainMean(LogProbRef)

C8_Witness ==
    /\ Done /\ fn = "log_like"
    /\ \E n \in DOMAIN p : p[n].conditioned /\ n \in ZRef
    /\ \E n \in DOMAIN p : p[n].conditioned /\ n \notin DOMAIN q
    /\ \E n \in DOMAIN p : ~p[n].conditioned
    /\ Returned(ret)

\* C9: kl reduces both q's and p's log-density over every sampled name of
\* q; a name sampled in q and absent from p adds nothing to log_p, so kl
\* returns an estimate that holds q's log-density for that name, and does
\* not fail.
C9_KlSampledNamesAbsentInP ==
    (Done /\ fn = "kl") =>
        /\ names = ZRef
        /\ (\E n \in ZRef : n \notin DOMAIN p) =>
              /\ Returned(ret)
              /\ Val(ret) = IF sample_dim # None /\ EffLw.kind = "T"
                            THEN WeightedMean(LogQpRef, EffLw.m, batch_dim)
                            ELSE PlainMean(LogQpRef)

C9_Witness ==
    /\ Done /\ fn = "kl" /\ sample_dim # None
    /\ \E n \in ZRef : n \notin DOMAIN p
    /\ \E n \in ZRef : n \in DOMAIN p
    /\ EffLw.kind = "T"
    /\ Returned(ret)

\* C10 (as stated): log_like returns zero whenever x is empty and kl returns
\* zero whenever q has no sampled names, with sample_dim unset or set, with
\* or without tensor log-weights; neither fails.
C10_EmptyNameSetZero ==
    /\ (Done /\ fn = "log_like" /\ XRef = {}) => (Returned(ret) /\ Val(ret) = Int2R(0))
    /\ (Done /\ fn = "kl" /\ ZRef = {}) => (Returned(ret) /\ Val(ret) = Int2R(0))

====
